---- MODULE Spec2Model ----
(***************************************************************************)
(* AirIQ air quality monitor: the sensor frame decoders, the reading       *)
(* aggregator, the alert evaluator, the AQI calculator and the CSV log     *)
(* shared by AirIQ.py, AirIQ_demo.py and ultra_simple_web_dashboard.py.    *)
(*                                                                         *)
(* Numbers.  Python ints are modelled as integers.  Decimal values are     *)
(* fixed-point integers: PM2.5 given to the AQI functions is in tenths of  *)
(* a microgram (the demo rounds to one decimal, AirIQ.py logs whole        *)
(* numbers), the MQ131 ozone value is in hundredths of a ppb (the code     *)
(* rounds to two decimals) and its voltage in millivolts (three decimals). *)
(* A CSV cell is the sequence <<>> (empty text) or <<v>> (the decimal text *)
(* of the number v).                                                       *)
(***************************************************************************)
EXTENDS Integers, Sequences, FiniteSets, TLC

VARIABLES
    frame,      \* decoder: the bytes serial.read() returned
    port,       \* decoder: self.serial of the sensor ("open" or "none")
    kind,       \* decoder: which driver is reading ("pms5003" or "mhz19")
    decoded,    \* decoder: what read() returned, NotRun before the call
    record,     \* alert evaluator: the aggregated record given to check_alerts
    thresholds, \* alert evaluator: config['alerts']
    evaluated,  \* alert evaluator: the outcome of check_alerts, NotRun before
    pm,         \* AQI: the PM2.5 value classified, in tenths
    aqi,        \* AQI: the results of the two classifiers, NotRun before
    config,     \* monitor: self.config as _load_config returned it
    broken,     \* environment: the sensors whose device fails to initialize
    sensors,    \* monitor: self.sensors, sensor name -> its device handle
    running,    \* monitor: self.running
    mpc,        \* monitor: where the AirIQ.py process is
    idx,        \* monitor: position of read_all_sensors in self.sensors
    agg,        \* monitor: data, the record read_all_sensors is building
    readings,   \* monitor: what each sensor.read() of this cycle returned
    alerts,     \* monitor: what check_alerts returned in this cycle
    wrote,      \* monitor: whether log_data appended a row in this cycle
    appended,   \* monitor: rows log_data has appended since the log was created
    faults,     \* environment: failures of working devices so far
    display,    \* monitor: self.display ("none", or what the OLED shows)
    ended,      \* monitor: which except clause of run_monitoring_loop ran
    cleanups,   \* monitor: calls of cleanup() in this process
    logErrors,  \* monitor: "Error logging data" messages of this process
    file,       \* air_quality_data.csv: whether it exists, and its lines
    created,    \* air_quality_data.csv: the header line it was created with
    now,        \* the clock: timestamps handed out so far
    reply,      \* dashboard: the answer of the request being served, NotRun if none
    probe,      \* one sensor object on its own: handle, last_reading, last_update
    config_file,\* config.json as _load_config finds it: missing, or its JSON object
    demo        \* the AirIQ_demo.py process: position, record, aqi_info, alerts

decVars == <<frame, port, kind, decoded>>
alertVars == <<record, thresholds, evaluated>>
aqiVars == <<pm, aqi>>
cfgVars == <<config_file>>
healthVars == <<probe>>
exitVars == <<display, ended, cleanups, logErrors>>
monVars == <<config, broken, sensors, running, mpc, idx, agg, readings, alerts,
            wrote, appended, faults, exitVars>>
fileVars == <<file, created, now>>
dashVars == <<reply>>
sysVars == <<monVars, fileVars, demo, dashVars>>
vars == <<frame, port, kind, decoded, record, thresholds, evaluated, pm, aqi,
          config, broken, sensors, running, mpc, idx, agg, readings, alerts,
          wrote, appended, faults, file, created, now, demo, reply,
          config_file, display, ended, cleanups, logErrors, probe>>

\* Python's None, as the value of an Optional[Dict] result.
None == [none |-> TRUE]

\* The value of a result variable before the operation ran.
NotRun == [notrun |-> TRUE]

(***************************************************************************)
(* Frame decoders (AirIQ.py, PMS5003Sensor.read and MHZ19Sensor.read)      *)
(***************************************************************************)

\* data[i] of a Python bytes object (0-based).
ByteAt(data, i) == data[i + 1]

\* (hi << 8) | lo for two bytes.
Word(hi, lo) == hi * 256 + lo

PMS5003FrameLen == 32
MHZ19FrameLen == 9
MHZ19TempOffset == 40

\* A variant of PMS5003_read that assembles the words low byte first.
PMS5003_read_LittleEndian(serial, ioError, data) ==
    IF serial = "none" THEN None
    ELSE IF ioError THEN None
    ELSE IF Len(data) = PMS5003FrameLen /\ ByteAt(data, 0) = 66 /\ ByteAt(data, 1) = 77
         THEN [pm1_0 |-> Word(ByteAt(data, 11), ByteAt(data, 10)),
               pm2_5 |-> Word(ByteAt(data, 13), ByteAt(data, 12)),
               pm10  |-> Word(ByteAt(data, 15), ByteAt(data, 14)),
               unit  |-> "ug/m3"]
         ELSE None

\* A variant of PMS5003_read that accepts any frame that starts with the magic.
PMS5003_read_NoLengthCheck(serial, ioError, data) ==
    IF serial = "none" THEN None
    ELSE IF ioError THEN None
    ELSE IF Len(data) >= 16 /\ ByteAt(data, 0) = 66 /\ ByteAt(data, 1) = 77
         THEN [pm1_0 |-> Word(ByteAt(data, 10), ByteAt(data, 11)),
               pm2_5 |-> Word(ByteAt(data, 12), ByteAt(data, 13)),
               pm10  |-> Word(ByteAt(data, 14), ByteAt(data, 15)),
               unit  |-> "ug/m3"]
         ELSE None

\* PMS5003Sensor.read: ioError is an exception raised by serial.write or
\* serial.read inside the try block, which the except clause swallows.
PMS5003_read(serial, ioError, data) ==
    IF serial = "none" THEN None
    ELSE IF ioError THEN None
    ELSE IF Len(data) = PMS5003FrameLen /\ ByteAt(data, 0) = 66 /\ ByteAt(data, 1) = 77
         THEN [pm1_0 |-> Word(ByteAt(data, 10), ByteAt(data, 11)),
               pm2_5 |-> Word(ByteAt(data, 12), ByteAt(data, 13)),
               pm10  |-> Word(ByteAt(data, 14), ByteAt(data, 15)),
               unit  |-> "ug/m3"]
         ELSE None

\* MHZ19Sensor.read.
MHZ19_read(serial, ioError, response) ==
    IF serial = "none" THEN None
    ELSE IF ioError THEN None
    ELSE IF Len(response) = MHZ19FrameLen /\ ByteAt(response, 0) = 255
                                          /\ ByteAt(response, 1) = 134
         THEN [co2         |-> Word(ByteAt(response, 2), ByteAt(response, 3)),
               temperature |-> ByteAt(response, 4) - MHZ19TempOffset,
               unit_co2    |-> "ppm",
               unit_temp   |-> "C"]
         ELSE None

\* Byte values the decoder inputs are built from.
MaxByteSample == 2
PayloadBytes == {255 - b : b \in 0..(MaxByteSample - 1)} \cup {0}

\* The responses serial.read(32) can return to the PMS5003 driver: at most 32
\* bytes (fewer after a timeout), any two leading bytes, any payload words.
PMSFrames ==
    { [i \in 1..n |->
         CASE i = 1  -> b0
           [] i = 2  -> b1
           [] i = 11 -> w[1]  [] i = 12 -> w[2]
           [] i = 13 -> w[3]  [] i = 14 -> w[4]
           [] i = 15 -> w[5]  [] i = 16 -> w[6]
           [] OTHER  -> 0] :
      n \in {0, 1, 31, 32}, b0 \in {66, 77}, b1 \in {77, 0},
      w \in [1..6 -> PayloadBytes] }

\* The responses serial.read(9) can return to the MH-Z19 driver.
MHZFrames ==
    { [i \in 1..n |->
         CASE i = 1 -> b0
           [] i = 2 -> b1
           [] i = 3 -> w[1]  [] i = 4 -> w[2]  [] i = 5 -> w[3]
           [] OTHER -> 0] :
      n \in {0, 8, 9}, b0 \in {255, 134}, b1 \in {134, 1},
      w \in [1..3 -> PayloadBytes \cup {40}] }

\* A Python dict with no keys.
EmptyDict == [k \in {} |-> 0]

\* air_quality_data.csv before any program created it.
NoFile == [exists |-> FALSE, lines |-> <<>>]

\* The AirIQ_demo.py process before it is started.
DemoOff == [pc |-> "off", data |-> EmptyDict, aqi_info |-> NotRun, alerts |-> NotRun]

\* No process started, no log file.
IdleSystem ==
    /\ config = NotRun /\ broken = {} /\ sensors = EmptyDict /\ running = FALSE
    /\ mpc = "off" /\ idx = 0 /\ agg = EmptyDict /\ readings = EmptyDict
    /\ alerts = NotRun /\ wrote = FALSE /\ appended = 0 /\ faults = 0
    /\ display = "none" /\ ended = "no" /\ cleanups = 0 /\ logErrors = 0
    /\ file = NoFile /\ created = <<>> /\ now = 0
    /\ demo = DemoOff
    /\ reply = NotRun

IdleDecoder ==
    /\ frame = <<>> /\ port = "none" /\ kind = "none" /\ decoded = NotRun

IdleAlerts ==
    /\ record = <<>> /\ thresholds = <<>> /\ evaluated = NotRun

IdleAqi ==
    /\ pm = 0 /\ aqi = NotRun

\* _load_config not called.
IdleLoader ==
    /\ config_file = NotRun

\* No sensor object examined on its own.
IdleHealth ==
    /\ probe = NotRun

InitDecode ==
    /\ kind \in {"pms5003", "mhz19"}
    /\ port \in {"open", "none"}
    /\ frame \in IF kind = "pms5003" THEN PMSFrames ELSE MHZFrames
    /\ decoded = NotRun
    /\ IdleAlerts /\ IdleAqi /\ IdleLoader /\ IdleHealth /\ IdleSystem

\* One call of PMS5003Sensor.read on the response in frame.
ReadPMS5003 ==
    /\ kind = "pms5003" /\ decoded = NotRun
    /\ \E ioError \in BOOLEAN :
          decoded' = [io |-> ioError, value |-> PMS5003_read(port, ioError, frame)]
    /\ UNCHANGED <<frame, port, kind>>
    /\ UNCHANGED <<alertVars, aqiVars, cfgVars, healthVars,
                   sysVars>>

\* One call of MHZ19Sensor.read on the response in frame.
ReadMHZ19 ==
    /\ kind = "mhz19" /\ decoded = NotRun
    /\ \E ioError \in BOOLEAN :
          decoded' = [io |-> ioError, value |-> MHZ19_read(port, ioError, frame)]
    /\ UNCHANGED <<frame, port, kind>>
    /\ UNCHANGED <<alertVars, aqiVars, cfgVars, healthVars,
                   sysVars>>

NextDecode == ReadPMS5003 \/ ReadMHZ19

SpecDecode == InitDecode /\ [][NextDecode]_vars

\* C1: a 32-byte PMS5003 response that starts 0x42 0x4D decodes to the
\* big-endian words at offsets 10-11, 12-13 and 14-15, and a 9-byte MH-Z19
\* response that starts 0xFF 0x86 to the big-endian word at offsets 2-3 and to
\* byte 4 minus 40.
C1_DecodeFields ==
    (decoded # NotRun /\ port = "open" /\ ~decoded.io) =>
       /\ (kind = "pms5003" /\ Len(frame) = 32 /\ frame[1] = 66 /\ frame[2] = 77) =>
             /\ decoded.value # None
             /\ decoded.value.pm1_0 = 256 * frame[11] + frame[12]
             /\ decoded.value.pm2_5 = 256 * frame[13] + frame[14]
             /\ decoded.value.pm10  = 256 * frame[15] + frame[16]
       /\ (kind = "mhz19" /\ Len(frame) = 9 /\ frame[1] = 255 /\ frame[2] = 134) =>
             /\ decoded.value # None
             /\ decoded.value.co2 = 256 * frame[3] + frame[4]
             /\ decoded.value.temperature = frame[5] - 40

\* A PMS5003 frame with distinct high and low payload bytes was decoded.
C1_Witness ==
    /\ kind = "pms5003" /\ decoded # NotRun /\ decoded.value # None
    /\ frame[13] = 255 /\ frame[14] = 0
    /\ decoded.value.pm2_5 = 65280

\* The magic header of a response, or <<>> when it is shorter than two bytes.
Magic(data) == IF Len(data) >= 2 THEN <<data[1], data[2]>> ELSE <<>>

\* C2: a response of the wrong length, or one whose first two bytes are not
\* the driver's magic value, makes read return None.
C2_MalformedAbsent ==
    decoded # NotRun =>
       /\ (kind = "pms5003" /\ (Len(frame) # 32 \/ Magic(frame) # <<66, 77>>)) =>
             decoded.value = None
       /\ (kind = "mhz19" /\ (Len(frame) # 9 \/ Magic(frame) # <<255, 134>>)) =>
             decoded.value = None

\* A 31-byte buffer with the right magic was given to the 32-byte decoder.
C2_Witness ==
    /\ kind = "pms5003" /\ port = "open" /\ decoded # NotRun /\ ~decoded.io
    /\ Len(frame) = 31 /\ Magic(frame) = <<66, 77>>
    /\ decoded.value = None

(***************************************************************************)
(* Alert evaluator (AirIQ.py and AirIQ_demo.py, check_alerts)              *)
(***************************************************************************)

\* dict.get(key) is None exactly when the key is missing.
Has(data, key) == key \in DOMAIN data

\* Truthiness of a Python number.
Truthy(v) == v # 0

\* The alert string f"HIGH <label>: <value> <unit>".
Alert(label, v) == [label |-> label, value |-> v]

\* A variant of check_alerts that compares without testing the value first:
\* None > threshold raises TypeError.
check_alerts_NoGuard(data, th) ==
    IF ~Has(data, "pms5003_pm2_5") \/ ~Has(data, "mhz19_co2") \/ ~Has(data, "mq131_ozone")
    THEN [raised |-> TRUE, alerts |-> <<>>]
    ELSE [raised |-> FALSE,
          alerts |->
             (IF data["pms5003_pm2_5"] > th.pm2_5_threshold
              THEN <<Alert("PM2.5", data["pms5003_pm2_5"])>> ELSE <<>>)
             \o (IF data["mhz19_co2"] > th.co2_threshold
                 THEN <<Alert("CO2", data["mhz19_co2"])>> ELSE <<>>)
             \o (IF data["mq131_ozone"] > th.ozone_threshold
                 THEN <<Alert("OZONE", data["mq131_ozone"])>> ELSE <<>>)]

\* AirQualityMonitor.check_alerts: "if pm2_5 and pm2_5 > threshold".
check_alerts(data, th) ==
    [raised |-> FALSE,
     alerts |->
        (IF Has(data, "pms5003_pm2_5") /\ Truthy(data["pms5003_pm2_5"])
              /\ data["pms5003_pm2_5"] > th.pm2_5_threshold
         THEN <<Alert("PM2.5", data["pms5003_pm2_5"])>> ELSE <<>>)
        \o (IF Has(data, "mhz19_co2") /\ Truthy(data["mhz19_co2"])
               /\ data["mhz19_co2"] > th.co2_threshold
            THEN <<Alert("CO2", data["mhz19_co2"])>> ELSE <<>>)
        \o (IF Has(data, "mq131_ozone") /\ Truthy(data["mq131_ozone"])
               /\ data["mq131_ozone"] > th.ozone_threshold
            THEN <<Alert("OZONE", data["mq131_ozone"])>> ELSE <<>>)]

\* AirQualityMonitorDemo.check_alerts: data['pm2_5'] raises KeyError when the
\* key is missing; values and thresholds are in tenths.
demo_check_alerts(data, th) ==
    IF ~Has(data, "pm2_5") THEN [raised |-> TRUE, alerts |-> <<>>]
    ELSE IF ~Has(data, "co2") THEN [raised |-> TRUE, alerts |-> <<>>]
    ELSE IF ~Has(data, "ozone") THEN [raised |-> TRUE, alerts |-> <<>>]
    ELSE [raised |-> FALSE,
          alerts |->
             (IF data["pm2_5"] > th.pm2_5_threshold
              THEN <<Alert("PM2.5", data["pm2_5"])>> ELSE <<>>)
             \o (IF data["co2"] > th.co2_threshold
                 THEN <<Alert("CO2", data["co2"])>> ELSE <<>>)
             \o (IF data["ozone"] > th.ozone_threshold
                 THEN <<Alert("OZONE", data["ozone"])>> ELSE <<>>)]

\* default_config["alerts"]; the ozone threshold of 100 ppb is in hundredths.
DefaultPm25Threshold == 35
DefaultCo2Threshold == 1000
DefaultOzoneThreshold == 10000

DefaultAlerts ==
    [pm2_5_threshold |-> DefaultPm25Threshold,
     co2_threshold   |-> DefaultCo2Threshold,
     ozone_threshold |-> DefaultOzoneThreshold]

\* AirQualityMonitorDemo.config['alerts'], in tenths.
DemoAlerts ==
    [pm2_5_threshold |-> 350, co2_threshold |-> 10000, ozone_threshold |-> 1000]

\* The function f restricted to the keys in S.
Restrict(f, S) == [k \in S |-> f[k]]

MonitoredKeys == {"pms5003_pm2_5", "mhz19_co2", "mq131_ozone"}

\* How far the sampled values and thresholds lie around the defaults.
MaxSpread == 1

\* Aggregated records of AirIQ.py as far as check_alerts reads them: any subset
\* of the monitored fields, each a non-negative number.
MonitorRecords ==
    { Restrict(full, S) :
        S \in SUBSET MonitoredKeys,
        full \in { [pms5003_pm2_5 |-> p, mhz19_co2 |-> c, mq131_ozone |-> o] :
                     p \in {0, 40} \cup (35 - MaxSpread + 1)..(35 + MaxSpread),
                     c \in {0, 500} \cup (1000 - MaxSpread + 1)..(1000 + MaxSpread),
                     o \in {0, 5000} \cup (10000 - MaxSpread + 1)..(10000 + MaxSpread) } }

\* config['alerts'] as a configuration file can set it: any numbers.
MonitorThresholds ==
    { [pm2_5_threshold |-> p, co2_threshold |-> c, ozone_threshold |-> o] :
        p \in {DefaultPm25Threshold, 0} \cup (-MaxSpread)..(-1),
        c \in {DefaultCo2Threshold, -1},
        o \in {DefaultOzoneThreshold, -1} }

\* What DemoSensor.read yields for the seven demo sensors, in tenths:
\* max(0, base + uniform(-variation, variation)) rounded to one decimal.
DemoRecords ==
    { [pm2_5 |-> p, pm10 |-> 250, co2 |-> c, tvoc |-> 500, ozone |-> o,
       temperature |-> 220, humidity |-> 450] :
        p \in {50, 120, 150, 250}, c \in {3500, 5500}, o \in {100, 500} }

InitAlerts ==
    /\ \/ /\ record \in [by : {"monitor"}, data : MonitorRecords]
          /\ thresholds \in MonitorThresholds
       \/ /\ record \in [by : {"demo"}, data : DemoRecords]
          /\ thresholds = DemoAlerts
    /\ evaluated = NotRun
    /\ IdleDecoder /\ IdleAqi /\ IdleLoader /\ IdleHealth /\ IdleSystem

\* AirQualityMonitor.check_alerts on the record.
CheckAlerts ==
    /\ record.by = "monitor" /\ evaluated = NotRun
    /\ evaluated' = check_alerts(record.data, thresholds)
    /\ UNCHANGED <<record, thresholds, decVars, aqiVars, cfgVars, healthVars,
                   sysVars>>

\* AirQualityMonitorDemo.check_alerts on the record.
DemoCheckAlerts ==
    /\ record.by = "demo" /\ evaluated = NotRun
    /\ evaluated' = demo_check_alerts(record.data, thresholds)
    /\ UNCHANGED <<record, thresholds, decVars, aqiVars, cfgVars, healthVars,
                   sysVars>>

NextAlerts == CheckAlerts \/ DemoCheckAlerts

SpecAlerts == InitAlerts /\ [][NextAlerts]_vars

\* The alerts of a result that carry the given label.
AlertsFor(result, label) ==
    { i \in 1..Len(result.alerts) : result.alerts[i].label = label }

\* The position of a label in the fixed evaluation order.
LabelRank(label) == CASE label = "PM2.5" -> 1 [] label = "CO2" -> 2 [] OTHER -> 3

\* C3: for each monitored field present in the record, check_alerts of AirIQ.py
\* emits exactly one alert for it if and only if its value is strictly greater
\* than the threshold, in the order PM2.5, CO2, ozone.
C3_AlertIffGreater ==
    (evaluated # NotRun /\ record.by = "monitor") =>
       /\ Has(record.data, "pms5003_pm2_5") =>
             ((Cardinality(AlertsFor(evaluated, "PM2.5")) = 1)
                 <=> (record.data["pms5003_pm2_5"] > thresholds.pm2_5_threshold))
       /\ Has(record.data, "mhz19_co2") =>
             ((Cardinality(AlertsFor(evaluated, "CO2")) = 1)
                 <=> (record.data["mhz19_co2"] > thresholds.co2_threshold))
       /\ Has(record.data, "mq131_ozone") =>
             ((Cardinality(AlertsFor(evaluated, "OZONE")) = 1)
                 <=> (record.data["mq131_ozone"] > thresholds.ozone_threshold))
       /\ \A i, j \in 1..Len(evaluated.alerts) :
             i < j => LabelRank(evaluated.alerts[i].label)
                         < LabelRank(evaluated.alerts[j].label)

\* The field of the aggregated record an alert label refers to.
FieldOf(label, by) ==
    IF by = "monitor"
    THEN CASE label = "PM2.5" -> "pms5003_pm2_5" [] label = "CO2" -> "mhz19_co2"
           [] OTHER -> "mq131_ozone"
    ELSE CASE label = "PM2.5" -> "pm2_5" [] label = "CO2" -> "co2" [] OTHER -> "ozone"

AqiResult(index, category, color) ==
    [aqi |-> index, category |-> category, color |-> color]

\* A variant of get_air_quality_index that starts the Moderate band at the
\* index 51 of the EPA table.
get_air_quality_index_Low51(pm2_5_value) ==
    IF pm2_5_value = <<>> \/ pm2_5_value = <<0>>
    THEN AqiResult(0, "Unknown", "#gray")
    ELSE LET t == pm2_5_value[1] IN
         IF t <= 120 THEN AqiResult((t * 50) \div 120, "Good", "#00e400")
         ELSE IF t <= 354
              THEN AqiResult(51 + ((t - 120) * 50) \div 234, "Moderate", "#ffff00")
         ELSE IF t <= 554
              THEN AqiResult(100 + ((t - 354) * 50) \div 200,
                             "Unhealthy for Sensitive", "#ff7e00")
         ELSE IF t <= 1504
              THEN AqiResult(150 + ((t - 554) * 50) \div 950, "Unhealthy", "#ff0000")
         ELSE IF t <= 2504
              THEN AqiResult(200 + ((t - 1504) * 100) \div 1000,
                             "Very Unhealthy", "#8f3f97")
         ELSE AqiResult(300 + ((t - 2504) * 100) \div 996, "Hazardous", "#7e0023")

\* UltraSimpleWebDashboard.get_air_quality_index.
get_air_quality_index(pm2_5_value) ==
    IF pm2_5_value = <<>> \/ pm2_5_value = <<0>>
    THEN AqiResult(0, "Unknown", "#gray")
    ELSE LET t == pm2_5_value[1] IN
         IF t <= 120 THEN AqiResult((t * 50) \div 120, "Good", "#00e400")
         ELSE IF t <= 354
              THEN AqiResult(50 + ((t - 120) * 50) \div 234, "Moderate", "#ffff00")
         ELSE IF t <= 554
              THEN AqiResult(100 + ((t - 354) * 50) \div 200,
                             "Unhealthy for Sensitive", "#ff7e00")
         ELSE IF t <= 1504
              THEN AqiResult(150 + ((t - 554) * 50) \div 950, "Unhealthy", "#ff0000")
         ELSE IF t <= 2504
              THEN AqiResult(200 + ((t - 1504) * 100) \div 1000,
                             "Very Unhealthy", "#8f3f97")
         ELSE AqiResult(300 + ((t - 2504) * 100) \div 996, "Hazardous", "#7e0023")

\* A variant of calculate_aqi whose Very Unhealthy band starts at index 201.
calculate_aqi_Step(t) ==
    IF t <= 120 THEN AqiResult((t * 50) \div 120, "Good", "green")
    ELSE IF t <= 354
         THEN AqiResult(50 + ((t - 120) * 50) \div 234, "Moderate", "yellow")
    ELSE IF t <= 554
         THEN AqiResult(100 + ((t - 354) * 50) \div 200,
                        "Unhealthy for Sensitive", "orange")
    ELSE IF t <= 1504
         THEN AqiResult(150 + ((t - 554) * 50) \div 950, "Unhealthy", "red")
    ELSE IF t <= 2504
         THEN AqiResult(201 + ((t - 1504) * 100) \div 1000, "Very Unhealthy", "purple")
    ELSE AqiResult(300 + ((t - 2504) * 100) \div 996, "Hazardous", "brown")

\* AirQualityMonitorDemo.calculate_aqi, on a number t (in tenths, t >= 0).
calculate_aqi(t) ==
    IF t <= 120 THEN AqiResult((t * 50) \div 120, "Good", "green")
    ELSE IF t <= 354
         THEN AqiResult(50 + ((t - 120) * 50) \div 234, "Moderate", "yellow")
    ELSE IF t <= 554
         THEN AqiResult(100 + ((t - 354) * 50) \div 200,
                        "Unhealthy for Sensitive", "orange")
    ELSE IF t <= 1504
         THEN AqiResult(150 + ((t - 554) * 50) \div 950, "Unhealthy", "red")
    ELSE IF t <= 2504
         THEN AqiResult(200 + ((t - 1504) * 100) \div 1000, "Very Unhealthy", "purple")
    ELSE AqiResult(300 + ((t - 2504) * 100) \div 996, "Hazardous", "brown")

\* The largest PM2.5 value classified, in tenths.
MaxPmTenths == 3600

\* The dashboard classifies the pm2_5 cell of the last log row or None; the
\* demo classifies data['pm2_5'], always a number.  The demo's own sensor
\* stays within 5.0 .. 25.0; calculate_aqi is checked on every value.
InitAqi ==
    /\ pm \in {<<>>} \cup { <<t>> : t \in 0..MaxPmTenths }
    /\ aqi = NotRun
    /\ IdleDecoder /\ IdleAlerts /\ IdleLoader /\ IdleHealth /\ IdleSystem

\* dashboard.get_air_quality_index(pm2_5) as api_current calls it.
ClassifyDashboard ==
    /\ aqi = NotRun
    /\ aqi' = [by |-> "dashboard", result |-> get_air_quality_index(pm)]
    /\ UNCHANGED <<pm, decVars, alertVars, cfgVars, healthVars,
                   sysVars>>

\* self.calculate_aqi(data['pm2_5']) as the demo loop calls it.
ClassifyDemo ==
    /\ aqi = NotRun /\ pm # <<>>
    /\ aqi' = [by |-> "demo", result |-> calculate_aqi(pm[1])]
    /\ UNCHANGED <<pm, decVars, alertVars, cfgVars, healthVars,
                   sysVars>>

NextAqi == ClassifyDashboard \/ ClassifyDemo

SpecAqi == InitAqi /\ [][NextAqi]_vars

\* The six bands: breakpoints (in tenths) and index bounds.  The open last
\* band interpolates towards index 400 at 350.0.
AqiBands ==
    << [lo |-> 0,    hi |-> 120,  ilo |-> 0,   ihi |-> 50,  category |-> "Good"],
       [lo |-> 120,  hi |-> 354,  ilo |-> 50,  ihi |-> 100, category |-> "Moderate"],
       [lo |-> 354,  hi |-> 554,  ilo |-> 100, ihi |-> 150,
        category |-> "Unhealthy for Sensitive"],
       [lo |-> 554,  hi |-> 1504, ilo |-> 150, ihi |-> 200, category |-> "Unhealthy"],
       [lo |-> 1504, hi |-> 2504, ilo |-> 200, ihi |-> 300,
        category |-> "Very Unhealthy"],
       [lo |-> 2504, hi |-> 3500, ilo |-> 300, ihi |-> 400, category |-> "Hazardous"] >>

\* The band that contains t: the first whose upper breakpoint is not below t,
\* the last one for everything beyond.
BandOf(t) ==
    IF \E i \in 1..5 : t <= AqiBands[i].hi
    THEN AqiBands[CHOOSE i \in 1..5 :
                     /\ t <= AqiBands[i].hi
                     /\ \A j \in 1..5 : t <= AqiBands[j].hi => i <= j]
    ELSE AqiBands[6]

\* low_index + (value - low_break) * (high_index - low_index)
\*                / (high_break - low_break), truncated.
Interpolated(t) ==
    LET b == BandOf(t) IN b.ilo + ((t - b.lo) * (b.ihi - b.ilo)) \div (b.hi - b.lo)

\* C10: for every PM2.5 value greater than 0 both classifiers return the
\* category of the band that contains the value and the band's linear
\* interpolation, truncated to an integer.
C10_AqiBandInterpolation ==
    (aqi # NotRun /\ pm # <<>> /\ pm # <<0>>) =>
       /\ aqi.result.category = BandOf(pm[1]).category
       /\ aqi.result.aqi = Interpolated(pm[1])

\* 40.0 was classified by the dashboard: Unhealthy for Sensitive, index 111.
C10_Witness ==
    /\ aqi # NotRun /\ aqi.by = "dashboard" /\ pm = <<400>>
    /\ aqi.result.category = "Unhealthy for Sensitive"
    /\ aqi.result.aqi = 111

\* The index expression of the n-th branch of the two classifiers, evaluated
\* at t whether or not t lies in that branch's band.  Below a band's lower
\* breakpoint the product is negative and int() truncates towards zero.
BandFormula(n, t) ==
    LET Trunc(a, d) == IF a >= 0 THEN a \div d ELSE -((-a) \div d)
    IN  CASE n = 1 -> Trunc(t * 50, 120)
          [] n = 2 -> 50 + Trunc((t - 120) * 50, 234)
          [] n = 3 -> 100 + Trunc((t - 354) * 50, 200)
          [] n = 4 -> 150 + Trunc((t - 554) * 50, 950)
          [] n = 5 -> 200 + Trunc((t - 1504) * 100, 1000)
          [] OTHER -> 300 + Trunc((t - 2504) * 100, 996)

\* The five breakpoints between bands, in tenths: the constants of the
\* comparisons pm2_5_value <= 12, 35.4, 55.4, 150.4, 250.4.
Boundaries == <<120, 354, 554, 1504, 2504>>

\* C11: at each of the five band boundaries the index the classifier returns,
\* which is the one of the lower band's formula, equals the index the next
\* band's formula gives at the same value.
C11_ContinuousAtBoundaries ==
    (aqi # NotRun /\ pm # <<>>) =>
       \A n \in 1..5 :
          pm[1] = Boundaries[n] =>
             /\ aqi.result.aqi = BandFormula(n, pm[1])
             /\ BandFormula(n, pm[1]) = BandFormula(n + 1, pm[1])

\* The demo classified the boundary value 150.4: index 200, still Unhealthy.
C11_Witness ==
    /\ aqi # NotRun /\ aqi.by = "demo" /\ pm = <<1504>>
    /\ aqi.result.aqi = 200 /\ aqi.result.category = "Unhealthy"

\* C12: the classification of None and of 0 has category "Unknown", and the
\* classification of 200 has category "Very Unhealthy", in both classifiers.
C12_NoneZeroUnknown ==
    aqi # NotRun =>
       /\ (pm = <<>> \/ pm = <<0>>) => aqi.result.category = "Unknown"
       /\ pm = <<2000>> => aqi.result.category = "Very Unhealthy"

(***************************************************************************)
(* The other drivers (AirIQ.py, SGP30Sensor, MQ131Sensor, DHT22Sensor)     *)
(***************************************************************************)

\* n / d rounded to the nearest integer (d > 0).
RoundDiv(n, d) == (2 * n + d) \div (2 * d)

Max(a, b) == IF a >= b THEN a ELSE b

\* SGP30Sensor.read: iaq_measure() returned (eco2, tvoc) or raised.
SGP30_read(sgp30, ioError, measure) ==
    IF sgp30 = "none" THEN None
    ELSE IF ioError THEN None
    ELSE [eco2 |-> measure[1], tvoc |-> measure[2],
          unit_eco2 |-> "ppm", unit_tvoc |-> "ppb"]

\* MQ131Sensor.read on the 10-bit ADC value: voltage = adc * 3.3 / 1024 (in
\* millivolts), ozone = max(0, (voltage - 0.4) * 1000 / 2) (in hundredths).
MQ131_read(spi, ioError, adc_value) ==
    IF spi = "none" THEN None
    ELSE IF ioError THEN None
    ELSE [ozone   |-> Max(0, RoundDiv(adc_value * 165000 - 20480000, 1024)),
          voltage |-> RoundDiv(adc_value * 3300, 1024),
          unit    |-> "ppb"]

\* DHT22Sensor.read: the two properties are <<>> (None) or <<tenths>>.
DHT22_read(dht, ioError, measure) ==
    IF dht = "none" THEN None
    ELSE IF ioError THEN None
    ELSE IF measure[1] # <<>> /\ measure[2] # <<>>
         THEN [temperature |-> measure[1][1], humidity |-> measure[2][1],
               unit_temp |-> "C", unit_hum |-> "%"]
         ELSE None

(***************************************************************************)
(* The monitor (AirIQ.py, AirQualityMonitor)                               *)
(***************************************************************************)

\* The order in which _init_sensors fills self.sensors.
SensorOrder == <<"pms5003", "mhz19", "sgp30", "mq131", "dht22">>

SensorNames == {SensorOrder[i] : i \in 1..Len(SensorOrder)}

\* self.sensors.items(): the registered sensors in insertion order.
Registry(reg) ==
    LET Registered(s) == s \in DOMAIN reg IN SelectSeq(SensorOrder, Registered)

\* An exception that left a call.
Raised == [raised |-> TRUE]

\* The keys of a reading that start with "unit".
UnitKeys == {"unit", "unit_co2", "unit_temp", "unit_eco2", "unit_tvoc", "unit_hum"}

\* key.startswith('unit')
StartsWithUnit(key) == key \in UnitKeys

\* f"{sensor_name}_{key}"
FlatKey(sensor_name, key) == sensor_name \o "_" \o key

\* A variant of Flatten that keeps the keys of the reading as they are.
Flatten_NoPrefix(sensor_name, reading) ==
    LET fields == {f \in DOMAIN reading : ~StartsWithUnit(f)}
    IN  [k \in fields |-> reading[k]]

\* The entries read_all_sensors adds to data for one reading.
Flatten(sensor_name, reading) ==
    LET fields == {f \in DOMAIN reading : ~StartsWithUnit(f)}
    IN  [k \in {FlatKey(sensor_name, f) : f \in fields} |->
            reading[CHOOSE f \in fields : FlatKey(sensor_name, f) = k]]

\* The frame a PMS5003 or MH-Z19 answers with: n bytes, header b0 b1, payload w.
SerialFrame(n, b0, b1, first, w) ==
    [i \in 1..n |->
        IF i = 1 THEN b0
        ELSE IF i = 2 THEN b1
        ELSE IF i >= first /\ i < first + Len(w) THEN w[i - first + 1]
        ELSE 0]

\* What the device of each sensor hands to its driver in one read.
DeviceInputs(name) ==
    CASE name = "pms5003" ->
            { SerialFrame(n, 66, 77, 11, <<0, 12, 0, p, 0, 60>>) :
                 n \in {31, 32}, p \in {0, 40} }
      [] name = "mhz19" ->
            { SerialFrame(n, 255, 134, 3, <<4, 1, 65>>) : n \in {8, 9} }
      [] name = "sgp30" -> { <<400, 50>> }
      [] name = "mq131" -> { 187 }
      [] OTHER -> { <<<<225>>, <<450>>>>, <<<<>>, <<450>>>> }

\* sensor.read() of the named driver.
DriverRead(name, device, ioError, input) ==
    CASE name = "pms5003" -> PMS5003_read(device, ioError, input)
      [] name = "mhz19"   -> MHZ19_read(device, ioError, input)
      [] name = "sgp30"   -> SGP30_read(device, ioError, input)
      [] name = "mq131"   -> MQ131_read(device, ioError, input)
      [] OTHER            -> DHT22_read(device, ioError, input)

\* The header row AirIQ.py writes.
MonitorHeader ==
    <<"timestamp", "pm1_0", "pm2_5", "pm10", "co2", "eco2", "tvoc", "ozone",
      "temperature", "humidity">>

\* The keys log_data reads for the ten cells of a row.
LogKeys ==
    <<"timestamp", "pms5003_pm1_0", "pms5003_pm2_5", "pms5003_pm10", "mhz19_co2",
      "sgp30_eco2", "sgp30_tvoc", "mq131_ozone", "dht22_temperature",
      "dht22_humidity">>

\* A header line: the column names as text cells.
HeaderLine(names) ==
    [kind |-> "header", cells |-> [i \in 1..Len(names) |-> <<names[i]>>]]

\* A variant of LogRow that writes 0 for a missing field.
LogRow_ZeroDefault(d) ==
    [kind |-> "row",
     cells |-> [i \in 1..Len(LogKeys) |->
                  IF Has(d, LogKeys[i]) THEN <<d[LogKeys[i]]>> ELSE <<0>>]]

\* The row log_data builds: data.get(key, '') for each column.
LogRow(d) ==
    [kind |-> "row",
     cells |-> [i \in 1..Len(LogKeys) |->
                  IF Has(d, LogKeys[i]) THEN <<d[LogKeys[i]]>> ELSE <<>>]]

\* open(path, 'a') and writer.writerow(row): the file is created when missing.
AppendLine(f, line) == [exists |-> TRUE, lines |-> Append(f.lines, line)]

\* A variant of init_csv_file whose existence test is inverted.
init_csv_file_Inverted(f, header) ==
    IF f.exists THEN [exists |-> TRUE, lines |-> <<HeaderLine(header)>>] ELSE f

\* _init_csv_file: the header is written only when the file does not exist.
init_csv_file(f, header) ==
    IF ~f.exists THEN [exists |-> TRUE, lines |-> <<HeaderLine(header)>>] ELSE f

\* A variant of init_sensors that registers only the sensors whose device
\* initialized.
init_sensors_DropFailed(sensor_config, failing) ==
    [s \in {n \in SensorNames : sensor_config[n].enabled /\ n \notin failing} |-> "ok"]

\* _init_sensors: every enabled sensor is registered; the constructor of a
\* driver catches the failure of its device and leaves the handle None.
init_sensors(sensor_config, failing) ==
    [s \in {n \in SensorNames : sensor_config[n].enabled} |->
        IF s \in failing THEN "none" ELSE "ok"]

\* Bounds of the runs explored.
MaxCycles == 2
MaxFaults == 1
MaxBroken == 1

\* self.config as far as the monitor reads it after start-up.
ConfigSamples ==
    { [sensors |-> [s \in SensorNames |-> [enabled |-> s \notin off]],
       display |-> [enabled |-> TRUE,
                    type |-> IF off = {} THEN "console" ELSE "oled"],
       logging |-> [enabled |-> l, interval |-> 60],
       alerts  |-> DefaultAlerts] :
        off \in {{}, {"sgp30", "dht22"}}, l \in BOOLEAN }

\* _init_display: the OLED is created and blanked when the display is enabled
\* and of type 'oled'; a failure is logged and leaves self.display None.
init_display(display_config, oledFails) ==
    IF ~display_config.enabled THEN "none"
    ELSE IF display_config.type = "oled" /\ ~oledFails THEN "blank"
    ELSE "none"

InitSystem ==
    /\ config \in ConfigSamples
    /\ broken \in {b \in SUBSET SensorNames : Cardinality(b) <= MaxBroken}
    /\ sensors = EmptyDict /\ running = FALSE
    /\ mpc = "off" /\ idx = 0 /\ agg = EmptyDict /\ readings = EmptyDict
    /\ alerts = NotRun /\ wrote = FALSE /\ appended = 0 /\ faults = 0
    /\ display = "none" /\ ended = "no" /\ cleanups = 0 /\ logErrors = 0
    /\ file = NoFile /\ created = <<>> /\ now = 0
    /\ demo = DemoOff
    /\ reply = NotRun
    /\ IdleDecoder /\ IdleAlerts /\ IdleAqi /\ IdleLoader /\ IdleHealth

pureVars == <<decVars, alertVars, aqiVars, cfgVars, healthVars>>

\* AirQualityMonitor.__init__ in a new process: _init_sensors registers every
\* enabled sensor, a device that fails to initialize leaves its handle None;
\* _init_csv_file creates the log when it is missing.
Construct ==
    /\ mpc \in {"off", "done"}
    /\ sensors' = init_sensors(config.sensors, broken)
    /\ running' = FALSE
    /\ file' = init_csv_file(file, MonitorHeader)
    /\ created' = IF file.exists THEN created ELSE file'.lines
    /\ appended' = IF file.exists THEN appended ELSE 0
    /\ idx' = 0 /\ agg' = EmptyDict /\ readings' = EmptyDict
    /\ alerts' = NotRun /\ wrote' = FALSE
    /\ \E oledFails \in BOOLEAN :
          /\ oledFails => config.display.type = "oled"
          /\ display' = init_display(config.display, oledFails)
    /\ ended' = "no" /\ cleanups' = 0 /\ logErrors' = 0
    /\ mpc' = "ready"
    /\ UNCHANGED <<config, broken, faults, now, demo, dashVars, pureVars>>

\* run_monitoring_loop up to the while test.
RunLoop ==
    /\ mpc = "ready"
    /\ running' = TRUE
    /\ mpc' = "loop"
    /\ UNCHANGED <<config, broken, sensors, idx, agg, readings, alerts, wrote,
                   appended, faults, fileVars, demo, exitVars,
                   dashVars, pureVars>>

\* read_all_sensors, first line: a new record with the timestamp.
BeginRead ==
    /\ mpc = "loop" /\ running
    /\ now < MaxCycles
    /\ agg' = [timestamp |-> now + 1]
    /\ now' = now + 1
    /\ readings' = EmptyDict
    /\ idx' = 1
    /\ alerts' = NotRun /\ wrote' = FALSE
    /\ mpc' = IF Len(Registry(sensors)) = 0 THEN "log" ELSE "read"
    /\ UNCHANGED <<config, broken, sensors, running, appended, faults, file,
                   created, demo, exitVars,
                   dashVars, pureVars>>

\* read_all_sensors, one turn of the for loop: sensor.read() and the flattening
\* of its reading; an exception that leaves read() is logged and skipped.
ReadSensor ==
    /\ mpc = "read"
    /\ LET name == Registry(sensors)[idx]
           device == sensors[name]
       IN  \E escapes \in BOOLEAN, ioError \in BOOLEAN, input \in DeviceInputs(name) :
              LET reading == IF escapes THEN Raised
                             ELSE DriverRead(name, device, ioError, input)
                  fault == device = "ok" /\ (reading = None \/ reading = Raised)
              IN  /\ escapes => device = "ok"
                  /\ fault => faults < MaxFaults
                  /\ faults' = IF fault THEN faults + 1 ELSE faults
                  /\ readings' = (name :> reading) @@ readings
                  /\ agg' = IF reading = None \/ reading = Raised THEN agg
                            ELSE Flatten(name, reading) @@ agg
    /\ idx' = idx + 1
    /\ mpc' = IF idx = Len(Registry(sensors)) THEN "log" ELSE "read"
    /\ UNCHANGED <<config, broken, sensors, running, alerts, wrote, appended,
                   fileVars, demo, exitVars,
                   dashVars, pureVars>>

\* A variant of LogData in which a failure to open or write the file leaves
\* log_data and ends the loop.
LogData_Propagate ==
    /\ mpc = "log"
    /\ \E ioError \in BOOLEAN :
          IF config.logging.enabled /\ ~ioError
          THEN /\ file' = AppendLine(file, LogRow(agg))
               /\ wrote' = TRUE
               /\ appended' = appended + 1
               /\ mpc' = "alerts"
               /\ UNCHANGED <<logErrors, ended>>
          ELSE /\ ioError => config.logging.enabled
               /\ logErrors' = IF ioError THEN logErrors + 1 ELSE logErrors
               /\ mpc' = IF ioError THEN "cleanup" ELSE "alerts"
               /\ ended' = IF ioError THEN "error" ELSE ended
               /\ UNCHANGED <<file, wrote, appended>>
    /\ UNCHANGED <<config, broken, sensors, running, idx, agg, readings, alerts,
                   faults, created, now, demo, display, cleanups,
                   dashVars, pureVars>>

\* log_data: nothing when logging is disabled; otherwise one row is appended,
\* unless opening or writing the file raises, which is logged and swallowed.
LogData ==
    /\ mpc = "log"
    /\ \E ioError \in BOOLEAN :
          IF config.logging.enabled /\ ~ioError
          THEN /\ file' = AppendLine(file, LogRow(agg))
               /\ wrote' = TRUE
               /\ appended' = appended + 1
               /\ UNCHANGED logErrors
          ELSE /\ ioError => config.logging.enabled
               /\ logErrors' = IF ioError THEN logErrors + 1 ELSE logErrors
               /\ UNCHANGED <<file, wrote, appended>>
    /\ mpc' = "alerts"
    /\ UNCHANGED <<config, broken, sensors, running, idx, agg, readings, alerts,
                   faults, created, now, demo, display, ended, cleanups,
                   dashVars, pureVars>>

\* alerts = self.check_alerts(data)
MonitorCheckAlerts ==
    /\ mpc = "alerts"
    /\ alerts' = check_alerts(agg, config.alerts)
    /\ mpc' = "display"
    /\ UNCHANGED <<config, broken, sensors, running, idx, agg, readings, wrote,
                   appended, faults, fileVars, demo, exitVars,
                   dashVars, pureVars>>

\* self.display_data(data, alerts): the console is printed to; an OLED that
\* was initialized is redrawn, and an exception of its driver leaves
\* display_data and the cycle, into "except Exception" of the loop.
DisplayData ==
    /\ mpc = "display"
    /\ \E ioError \in BOOLEAN :
          IF config.display.type = "oled" /\ display # "none"
          THEN IF ioError
               THEN /\ faults < MaxFaults
                    /\ faults' = faults + 1
                    /\ ended' = "error"
                    /\ mpc' = "cleanup"
                    /\ UNCHANGED display
               ELSE /\ display' = "shown"
                    /\ mpc' = "sleep"
                    /\ UNCHANGED <<faults, ended>>
          ELSE /\ ~ioError
               /\ mpc' = "sleep"
               /\ UNCHANGED <<faults, display, ended>>
    /\ UNCHANGED <<config, broken, sensors, running, idx, agg, readings, alerts,
                   wrote, appended, fileVars, demo, cleanups, logErrors,
                   dashVars, pureVars>>

\* time.sleep(interval) returns and the while test runs again.
Sleep ==
    /\ mpc = "sleep"
    /\ mpc' = "loop"
    /\ UNCHANGED <<config, broken, sensors, running, idx, agg, readings, alerts,
                   wrote, appended, faults, fileVars, demo, exitVars,
                   dashVars, pureVars>>

\* A variant of Interrupt that leaves the loop without the finally clause.
Interrupt_NoFinally ==
    /\ mpc \in {"loop", "read", "log", "alerts", "display", "sleep"}
    /\ ended' = "interrupt"
    /\ mpc' = "done"
    /\ UNCHANGED <<config, broken, sensors, running, idx, agg, readings, alerts,
                   wrote, appended, faults, fileVars, demo, display, cleanups,
                   logErrors, dashVars, pureVars>>

\* A variant of Interrupt whose handler saves what was read so far when the
\* interrupt arrives between two sensor reads.
Interrupt_FlushPartial ==
    /\ mpc \in {"loop", "read", "log", "alerts", "display", "sleep"}
    /\ ended' = "interrupt"
    /\ mpc' = "cleanup"
    /\ IF mpc = "read"
       THEN /\ file' = AppendLine(file, LogRow(agg))
            /\ appended' = appended + 1
       ELSE UNCHANGED <<file, appended>>
    /\ UNCHANGED <<config, broken, sensors, running, idx, agg, readings, alerts,
                   wrote, faults, created, now, demo, display, cleanups,
                   logErrors, dashVars, pureVars>>

\* KeyboardInterrupt inside the try block of run_monitoring_loop: in the
\* while test, a sensor read, log_data, check_alerts, display_data or sleep.
Interrupt ==
    /\ mpc \in {"loop", "read", "log", "alerts", "display", "sleep"}
    /\ ended' = "interrupt"
    /\ mpc' = "cleanup"
    /\ UNCHANGED <<config, broken, sensors, running, idx, agg, readings, alerts,
                   wrote, appended, faults, fileVars, demo, display, cleanups,
                   logErrors, dashVars, pureVars>>

\* cleanup, from the finally clause: running is cleared, the serial ports are
\* closed and an OLED is blanked; the process ends and the locals of the loop
\* are gone.
Cleanup ==
    /\ mpc = "cleanup"
    /\ running' = FALSE
    /\ sensors' = [s \in DOMAIN sensors |->
                      IF s \in {"pms5003", "mhz19"} /\ sensors[s] = "ok"
                      THEN "closed" ELSE sensors[s]]
    /\ display' = IF display = "none" THEN "none" ELSE "blank"
    /\ cleanups' = cleanups + 1
    /\ idx' = 0 /\ agg' = EmptyDict /\ readings' = EmptyDict
    /\ alerts' = NotRun /\ wrote' = FALSE
    /\ mpc' = "done"
    /\ UNCHANGED <<config, broken, appended, faults, fileVars, demo, ended,
                   logErrors, dashVars, pureVars>>

NextMonitor ==
    \/ Construct \/ RunLoop \/ BeginRead \/ ReadSensor \/ LogData
    \/ MonitorCheckAlerts \/ DisplayData \/ Sleep \/ Interrupt \/ Cleanup

\* AirIQ.py alone with the log file.
SpecMonitor == InitSystem /\ [][NextMonitor]_vars

\* The data rows of the log.
DataLines == { i \in 1..Len(file.lines) : i > 1 }

\* C6: a log created by the monitor holds one header line and one line for
\* every record log_data appended with logging enabled, each data row with as
\* many columns as the header.
C6_FreshLogLineCount ==
    file.exists =>
       /\ Len(file.lines) = appended + 1
       /\ file.lines[1].kind = "header"
       /\ \A i \in DataLines :
             /\ file.lines[i].kind = "row"
             /\ Len(file.lines[i].cells) = Len(file.lines[1].cells)

\* Two records were appended to a log the monitor created.
C6_Witness ==
    /\ file.exists /\ appended = 2 /\ Len(file.lines) = 3

\* The sensor and field each column after the timestamp is filled from.
ColumnSource ==
    << <<"pms5003", "pm1_0">>, <<"pms5003", "pm2_5">>, <<"pms5003", "pm10">>,
       <<"mhz19", "co2">>, <<"sgp30", "eco2">>, <<"sgp30", "tvoc">>,
       <<"mq131", "ozone">>, <<"dht22", "temperature">>, <<"dht22", "humidity">> >>

\* Whether the sensor gave a reading in this cycle.
GaveReading(s) ==
    s \in DOMAIN readings /\ readings[s] # None /\ readings[s] # Raised

\* The last line of the log.
LastLine == file.lines[Len(file.lines)]

\* C7: the row log_data wrote has the ten fixed columns, an empty cell in each
\* column whose sensor was disabled, absent or failed in the cycle, and the
\* value read in every other column.
C7_MissingFieldEmptyCell ==
    (mpc = "alerts" /\ wrote) =>
       /\ Len(LastLine.cells) = 10
       /\ Len(file.lines[1].cells) = 10
       /\ LastLine.cells[1] = <<agg["timestamp"]>>
       /\ \A i \in 1..9 :
             LET s == ColumnSource[i][1]
                 f == ColumnSource[i][2]
             IN  IF GaveReading(s)
                 THEN LastLine.cells[i + 1] = <<readings[s][f]>>
                 ELSE LastLine.cells[i + 1] = <<>>

\* A row was written in a cycle where the SGP30 was disabled, another sensor
\* failed and the PM2.5 reading was 0: empty cells beside a cell holding 0.
C7_Witness ==
    /\ mpc = "alerts" /\ wrote
    /\ "sgp30" \notin DOMAIN sensors
    /\ \E s \in DOMAIN sensors : sensors[s] = "ok" /\ ~GaveReading(s)
    /\ LastLine.cells[3] = <<0>>
    /\ LastLine.cells[6] = <<>>

\* Every field name a driver returns.
ReadingFields ==
    {"pm1_0", "pm2_5", "pm10", "co2", "temperature", "eco2", "tvoc", "ozone",
     "voltage", "humidity"}

\* C8: when read_all_sensors has returned, the record holds the timestamp and,
\* under "<sensor>_<field>", every non-unit field of every sensor whose read
\* succeeded, and no key of a sensor whose read raised or returned None.
C8_FailureKeepsOthers ==
    mpc = "log" =>
       /\ "timestamp" \in DOMAIN agg
       /\ DOMAIN readings = DOMAIN sensors
       /\ \A s \in DOMAIN sensors :
             IF GaveReading(s)
             THEN \A f \in DOMAIN readings[s] :
                     f \notin UnitKeys =>
                        /\ (s \o "_" \o f) \in DOMAIN agg
                        /\ agg[s \o "_" \o f] = readings[s][f]
             ELSE \A f \in ReadingFields : (s \o "_" \o f) \notin DOMAIN agg
       /\ \A k \in DOMAIN agg :
             k = "timestamp" \/ \E s \in DOMAIN sensors, f \in ReadingFields :
                                    k = s \o "_" \o f /\ f \notin UnitKeys

\* read_all_sensors returned after one read raised, one returned None and a
\* later sensor was read successfully.
C8_Witness ==
    /\ mpc = "log"
    /\ \E s \in DOMAIN readings : readings[s] = Raised
    /\ GaveReading("dht22")
    /\ "dht22_humidity" \in DOMAIN agg
    /\ "mhz19" \in DOMAIN readings /\ readings["mhz19"] = None

\* C9: once the monitor is constructed every enabled sensor is registered,
\* also one whose device failed to initialize; such a sensor has no handle,
\* each of its reads returns None, and every registered sensor is read in
\* each cycle.
C9_FailedSensorStaysAbsent ==
    mpc \notin {"off"} =>
       /\ DOMAIN sensors = {s \in SensorNames : config.sensors[s].enabled}
       /\ \A s \in DOMAIN sensors \cap broken :
             /\ sensors[s] = "none"
             /\ s \in DOMAIN readings => readings[s] = None
       /\ mpc \in {"log", "alerts", "display", "sleep"} =>
             DOMAIN readings = DOMAIN sensors

\* A cycle ended with the broken PMS5003 registered and absent and the MH-Z19
\* read successfully.
C9_Witness ==
    /\ mpc = "sleep"
    /\ "pms5003" \in broken /\ "pms5003" \in DOMAIN sensors
    /\ readings["pms5003"] = None
    /\ GaveReading("mhz19")

\* The positions inside the try block of run_monitoring_loop.
InLoop == {"loop", "read", "log", "alerts", "display", "sleep"}

\* C16: every way out of the monitoring loop, by KeyboardInterrupt at any
\* point of a cycle or by an exception that leaves a cycle, leads to cleanup;
\* when the process is done cleanup has run exactly once, running is false,
\* no serial handle is open and the OLED is blank; nothing but the start of a
\* new process follows.
C16_CleanupOnceThenNothing ==
    [][/\ (mpc \in InLoop /\ mpc' \notin InLoop) => (mpc' = "cleanup" /\ cleanups' = 0)
       /\ mpc = "cleanup" => mpc' = "done"
       /\ mpc' = "done" =>
             /\ cleanups' = 1
             /\ ~running'
             /\ \A s \in DOMAIN sensors' \cap {"pms5003", "mhz19"} : sensors'[s] # "ok"
             /\ display' \in {"none", "blank"}
       /\ mpc = "done" => (mpc' = "ready" /\ cleanups' = 0)]_vars

\* The process ended on an exception of the OLED driver: cleanup ran once,
\* closed the PMS5003 port and blanked the display.
C16_Witness ==
    /\ mpc = "done" /\ ended = "error" /\ cleanups = 1
    /\ ~running /\ display = "blank"
    /\ "pms5003" \in DOMAIN sensors /\ sensors["pms5003"] = "closed"

\* The rows of the log that carry the timestamp t.
RowsOf(t) == { i \in DataLines : file.lines[i].cells[1] = <<t>> }

\* C17: the log changes only when __init__ creates it or when log_data
\* appends the record of a read_all_sensors call that has read every
\* registered sensor; the record of a cycle that has not reached log_data, or
\* was interrupted before it, has no row.
C17_OnlyCompleteRecordsLogged ==
    [][/\ file' # file =>
             \/ /\ mpc \in {"off", "done"} /\ ~file.exists
                /\ file'.lines = <<HeaderLine(MonitorHeader)>>
             \/ /\ mpc = "log"
                /\ idx = Len(Registry(sensors)) + 1
                /\ DOMAIN readings = DOMAIN sensors
                /\ file'.lines = Append(file.lines, LogRow(agg))
       /\ ("timestamp" \in DOMAIN agg' /\ ~wrote') =>
             \A i \in 2..Len(file'.lines) :
                file'.lines[i].cells[1] # <<agg'["timestamp"]>>]_vars

\* The second cycle was interrupted between two sensor reads, with part of
\* the record built, and the log holds only the row of the first cycle.
C17_Witness ==
    /\ mpc = "cleanup" /\ ended = "interrupt"
    /\ idx > 1 /\ idx <= Len(Registry(sensors))
    /\ Cardinality(DOMAIN agg) > 1
    /\ appended = 1 /\ Len(file.lines) = 2
    /\ RowsOf(agg["timestamp"]) = {}

\* C19: a failure to open or write the file inside log_data is logged and
\* goes no further: log_data returns to the loop, which is still running with
\* the record and the file unchanged, check_alerts and display_data then work
\* on that record, and the loop goes on.
C19_LogFailureContained ==
    [][/\ logErrors' # logErrors =>
             \/ mpc' = "ready"
             \/ /\ logErrors' = logErrors + 1
                /\ mpc = "log" /\ mpc' = "alerts"
                /\ running' /\ ended' = "no"
                /\ agg' = agg /\ file' = file
       /\ (logErrors' > 0 /\ config.logging.enabled /\ ~wrote'
              /\ mpc' \in {"display", "sleep"}) =>
             alerts' = check_alerts(agg', config.alerts)]_vars

\* The loop is in its second cycle after the append of the first one failed.
C19_Witness ==
    /\ logErrors = 1 /\ mpc = "read" /\ running
    /\ file.exists /\ appended = 0 /\ now = 2

(***************************************************************************)
(* The demo (AirIQ_demo.py, AirQualityMonitorDemo), which creates and      *)
(* appends to the same air_quality_data.csv                                *)
(***************************************************************************)

\* The header row AirIQ_demo.py writes.
DemoHeader ==
    <<"timestamp", "pm2_5", "pm10", "co2", "tvoc", "ozone", "temperature",
      "humidity">>

\* The row the demo's log_data builds: data[key] for each of its columns.
DemoLogRow(d) ==
    [kind |-> "row",
     cells |-> [i \in 1..Len(DemoHeader) |-> <<d[DemoHeader[i]]>>]]

\* What the seven DemoSensor.read calls of one cycle yield, in tenths.
DemoInputs ==
    { [pm2_5 |-> p, pm10 |-> 250, co2 |-> 4500, tvoc |-> 500, ozone |-> 300,
       temperature |-> 220, humidity |-> 450] : p \in {120, 250} }

monFrame == <<config, broken, sensors, running, mpc, idx, agg, readings, alerts,
              wrote, faults, exitVars>>

\* AirQualityMonitorDemo.__init__ in a new process.
DemoConstruct ==
    /\ demo.pc \in {"off", "done"}
    /\ file' = init_csv_file(file, DemoHeader)
    /\ created' = IF file.exists THEN created ELSE file'.lines
    /\ appended' = IF file.exists THEN appended ELSE 0
    /\ demo' = [DemoOff EXCEPT !.pc = "ready"]
    /\ UNCHANGED <<monFrame, now, dashVars, pureVars>>

\* run_monitoring_loop of the demo up to the while test.
DemoRunLoop ==
    /\ demo.pc = "ready"
    /\ demo' = [demo EXCEPT !.pc = "loop"]
    /\ UNCHANGED <<monVars, fileVars, dashVars, pureVars>>

\* The demo's read_all_sensors: every sensor gives a value.
DemoReadAll ==
    /\ demo.pc = "loop"
    /\ now < MaxCycles
    /\ now' = now + 1
    /\ \E values \in DemoInputs :
          demo' = [demo EXCEPT !.pc = "aqi",
                               !.data = [timestamp |-> now + 1] @@ values,
                               !.aqi_info = NotRun, !.alerts = NotRun]
    /\ UNCHANGED <<monVars, file, created, dashVars, pureVars>>

\* aqi_info = self.calculate_aqi(data['pm2_5'])
DemoCalculateAqi ==
    /\ demo.pc = "aqi"
    /\ demo' = [demo EXCEPT !.pc = "alerts",
                            !.aqi_info = calculate_aqi(demo.data["pm2_5"])]
    /\ UNCHANGED <<monVars, fileVars, dashVars, pureVars>>

\* alerts = self.check_alerts(data); a KeyError would end the loop.
DemoEvaluate ==
    /\ demo.pc = "alerts"
    /\ LET result == demo_check_alerts(demo.data, DemoAlerts)
       IN  demo' = [demo EXCEPT !.pc = IF result.raised THEN "cleanup" ELSE "log",
                                !.alerts = result]
    /\ UNCHANGED <<monVars, fileVars, dashVars, pureVars>>

\* The demo's log_data: one row of eight cells is appended, unless opening or
\* writing the file raises, which is logged and swallowed.
DemoLogData ==
    /\ demo.pc = "log"
    /\ \E ioError \in BOOLEAN :
          IF ioError THEN UNCHANGED <<file, appended>>
          ELSE /\ file' = AppendLine(file, DemoLogRow(demo.data))
               /\ appended' = appended + 1
    /\ demo' = [demo EXCEPT !.pc = "display"]
    /\ UNCHANGED <<monFrame, created, now, dashVars, pureVars>>

\* self.display_data(data, aqi_info, alerts)
DemoDisplay ==
    /\ demo.pc = "display"
    /\ demo' = [demo EXCEPT !.pc = "sleep"]
    /\ UNCHANGED <<monVars, fileVars, dashVars, pureVars>>

\* time.sleep(interval) returns in the demo.
DemoSleep ==
    /\ demo.pc = "sleep"
    /\ demo' = [demo EXCEPT !.pc = "loop"]
    /\ UNCHANGED <<monVars, fileVars, dashVars, pureVars>>

\* KeyboardInterrupt inside the try block of the demo's loop.
DemoInterrupt ==
    /\ demo.pc \in {"loop", "aqi", "alerts", "log", "display", "sleep"}
    /\ demo' = [demo EXCEPT !.pc = "cleanup"]
    /\ UNCHANGED <<monVars, fileVars, dashVars, pureVars>>

\* The demo's cleanup; the process ends.
DemoCleanup ==
    /\ demo.pc = "cleanup"
    /\ demo' = [DemoOff EXCEPT !.pc = "done"]
    /\ UNCHANGED <<monVars, fileVars, dashVars, pureVars>>

NextDemo ==
    \/ DemoConstruct \/ DemoRunLoop \/ DemoReadAll \/ DemoCalculateAqi
    \/ DemoEvaluate \/ DemoLogData \/ DemoDisplay \/ DemoSleep
    \/ DemoInterrupt \/ DemoCleanup

Init == InitSystem

Next == NextMonitor \/ NextDemo

\* AirIQ.py and AirIQ_demo.py started in the same directory, in any order.
Spec == Init /\ [][Next]_vars

\* The header lines of the log.
HeaderLines == { i \in 1..Len(file.lines) : file.lines[i].kind = "header" }

\* C5: after any start-ups and logging cycles of the two programs the log has
\* exactly one header row, the one it was created with, and every data row
\* has as many columns as the header.
C5_OneHeaderSameColumns ==
    file.exists =>
       /\ HeaderLines = {1}
       /\ file.lines[1] = created[1]
       /\ \A i \in DataLines :
             Len(file.lines[i].cells) = Len(file.lines[1].cells)

(***************************************************************************)
(* Configuration loading (AirIQ.py, AirQualityMonitor._load_config)        *)
(***************************************************************************)

\* open(config_file) raised FileNotFoundError.
NoConfigFile == [missing |-> TRUE]

\* default_config; the alert thresholds in the units of DefaultAlerts.
DefaultConfig ==
    [sensors |-> [pms5003 |-> [enabled |-> TRUE, port |-> "/dev/ttyUSB0"],
                  mhz19   |-> [enabled |-> TRUE, port |-> "/dev/ttyUSB1"],
                  sgp30   |-> [enabled |-> TRUE],
                  mq131   |-> [enabled |-> TRUE, channel |-> 0],
                  dht22   |-> [enabled |-> TRUE, pin |-> 4]],
     display |-> [enabled |-> TRUE, type |-> "console"],
     logging |-> [interval |-> 60, enabled |-> TRUE],
     alerts  |-> DefaultAlerts]

\* _load_config: the parsed object, with each top-level key of default_config
\* that it lacks set to the default section; the defaults when the file is
\* missing.
load_config(f) ==
    IF f = NoConfigFile THEN DefaultConfig
    ELSE [key \in DOMAIN f \cup DOMAIN DefaultConfig |->
            IF key \in DOMAIN f THEN f[key] ELSE DefaultConfig[key]]

\* Every dict made of some of the entries of d.
SubDicts(d) == { Restrict(d, S) : S \in SUBSET DOMAIN d }

\* Settings a configuration file gives that differ from the defaults.
CustomConfig ==
    [sensors |-> [pms5003 |-> [enabled |-> FALSE, port |-> "/dev/ttyAMA0"],
                  dht22   |-> [enabled |-> FALSE, pin |-> 17]],
     display |-> [enabled |-> FALSE, type |-> "oled"],
     logging |-> [interval |-> 30, enabled |-> FALSE],
     alerts  |-> [pm2_5_threshold |-> 50, co2_threshold |-> 900,
                  ozone_threshold |-> 8000]]

\* The "sensors" sections sampled: any of the two sensors, each with any of
\* its keys.
SensorSections ==
    { Restrict(full, N) :
        N \in SUBSET DOMAIN CustomConfig.sensors,
        full \in [pms5003 : SubDicts(CustomConfig.sensors.pms5003),
                  dht22   : SubDicts(CustomConfig.sensors.dht22)] }

\* The JSON objects json.load can return: any of the four sections, each
\* with any of its keys.
ConfigFiles ==
    { Restrict(full, T) :
        T \in SUBSET DOMAIN CustomConfig,
        full \in [sensors : SensorSections,
                  display : SubDicts(CustomConfig.display),
                  logging : SubDicts(CustomConfig.logging),
                  alerts  : SubDicts(CustomConfig.alerts)] }

InitConfig ==
    /\ config_file \in {NoConfigFile} \cup ConfigFiles
    /\ IdleDecoder /\ IdleAlerts /\ IdleAqi /\ IdleHealth /\ IdleSystem

\* self.config = self._load_config(config_file)
LoadConfig ==
    /\ config = NotRun
    /\ config' = load_config(config_file)
    /\ UNCHANGED <<broken, sensors, running, mpc, idx, agg, readings, alerts,
                   wrote, appended, faults, fileVars, demo, exitVars,
                   dashVars, pureVars>>

NextConfig == LoadConfig

SpecConfig == InitConfig /\ [][NextConfig]_vars

\* Whether the loaded configuration has the default at section[key].
HasDefault(cfg, section, key) ==
    /\ section \in DOMAIN cfg
    /\ key \in DOMAIN cfg[section]
    /\ cfg[section][key] = DefaultConfig[section][key]

\* Whether the loaded configuration has the default at sensors[name][key].
HasSensorDefault(cfg, name, key) ==
    /\ "sensors" \in DOMAIN cfg
    /\ name \in DOMAIN cfg.sensors
    /\ key \in DOMAIN cfg.sensors[name]
    /\ cfg.sensors[name][key] = DefaultConfig.sensors[name][key]

\* C13: the configuration _load_config returns has the default value at every
\* recognized key the file does not give, be it in a section the file lacks
\* or in a section the file gives in part; a missing file gives the defaults.
C13_UnspecifiedKeysDefault ==
    config # NotRun =>
       IF config_file = NoConfigFile THEN config = DefaultConfig
       ELSE /\ \A section \in {"display", "logging", "alerts"} :
                  \A key \in DOMAIN DefaultConfig[section] :
                     (section \notin DOMAIN config_file
                         \/ key \notin DOMAIN config_file[section])
                        => HasDefault(config, section, key)
            /\ \A name \in SensorNames :
                  \A key \in DOMAIN DefaultConfig.sensors[name] :
                     ("sensors" \notin DOMAIN config_file
                         \/ name \notin DOMAIN config_file.sensors
                         \/ key \notin DOMAIN config_file.sensors[name])
                        => HasSensorDefault(config, name, key)

(***************************************************************************)
(* The web dashboard (ultra_simple_web_dashboard.py), a separate process   *)
(* that reads air_quality_data.csv while AirIQ.py appends to it            *)
(*                                                                         *)
(* A number parsed by float() is the integer 100 * value.  A value of the  *)
(* answer is [number |-> n], [text |-> <<>>] for the empty string a failed *)
(* float('') leaves in place, or [time |-> t] for a timestamp.             *)
(***************************************************************************)

\* What 100 * float(text) is for one unit of a cell of the column: the ozone
\* cell is in hundredths, temperature and humidity in tenths, the rest whole.
ColumnScale(col) ==
    CASE col = "ozone" -> 1
      [] col \in {"temperature", "humidity"} -> 10
      [] OTHER -> 100

\* The hard-coded readings get_current_readings returns when there is no log.
DemoReadings ==
    [timestamp |-> [time |-> 0], pm2_5 |-> [number |-> 1520],
     pm10 |-> [number |-> 2210], co2 |-> [number |-> 41000],
     tvoc |-> [number |-> 4500], ozone |-> [number |-> 2500],
     temperature |-> [number |-> 2250], humidity |-> [number |-> 5500]]

\* try: float(cell) except: cell, of get_current_readings.
FloatOrText(col, cell) ==
    IF cell = <<>> THEN [text |-> <<>>]
    ELSE [number |-> ColumnScale(col) * cell[1]]

\* try: float(cell) except: 0, of get_recent_data.
FloatOrZero(col, cell) ==
    IF cell = <<>> THEN [number |-> 0]
    ELSE [number |-> ColumnScale(col) * cell[1]]

\* get_current_readings: header and last line split at the commas, one entry
\* per header column the last line has a cell for.  open and readlines are
\* taken to succeed.
get_current_readings(f) ==
    IF ~f.exists THEN DemoReadings
    ELSE IF Len(f.lines) < 2 THEN EmptyDict
    ELSE LET header == f.lines[1].cells
             last_row == f.lines[Len(f.lines)].cells
             cols == {i \in 1..Len(header) : i <= Len(last_row)}
         IN  [col \in {header[i][1] : i \in cols} |->
                LET i == CHOOSE j \in cols : header[j][1] = col
                IN  IF col = "timestamp"
                    THEN IF last_row[i] = <<>> THEN [text |-> <<>>]
                         ELSE [time |-> last_row[i][1]]
                    ELSE FloatOrText(col, last_row[i])]

\* api_current: readings.get('pm2_5', 0) goes to get_air_quality_index, whose
\* comparison '' <= 12 raises TypeError when the value is the empty string.
api_current(f) ==
    LET current == get_current_readings(f)
        pm2_5_value == IF Has(current, "pm2_5") THEN current["pm2_5"]
                       ELSE [number |-> 0]
    IN  IF Has(pm2_5_value, "text")
        THEN [route |-> "current", failed |-> TRUE, readings |-> current,
              aqi |-> Raised]
        ELSE [route |-> "current", failed |-> FALSE, readings |-> current,
              aqi |-> get_air_quality_index(<<pm2_5_value.number \div 10>>)]

\* recent_data[-50:]
RecentLimit == 50

\* seq[-n:]
LastN(seq, n) ==
    IF Len(seq) <= n THEN seq ELSE SubSeq(seq, Len(seq) - n + 1, Len(seq))

\* get_recent_data: every line after the header with at least as many cells
\* as the header, a timestamp that parses and is not older than the cutoff.
get_recent_data(f, cutoff_time) ==
    IF ~f.exists THEN <<>>
    ELSE IF Len(f.lines) < 2 THEN <<>>
    ELSE LET header == f.lines[1].cells
             Usable(line) ==
                 /\ Len(line.cells) >= Len(header)
                 /\ line.cells[1] # <<>>
                 /\ line.cells[1][1] >= cutoff_time
             rows == SelectSeq(SubSeq(f.lines, 2, Len(f.lines)), Usable)
             Point(row) ==
                 [col \in {header[i][1] : i \in 1..Len(header)} |->
                    LET i == CHOOSE j \in 1..Len(header) : header[j][1] = col
                    IN  IF col = "timestamp" THEN [time |-> row.cells[1][1]]
                        ELSE FloatOrZero(col, row.cells[i])]
         IN  LastN([n \in 1..Len(rows) |-> Point(rows[n])], RecentLimit)

\* The columns in which the sampled partial lines end.
CutColumns == {3, 10}

\* What is left of a cell's text when the line ends inside it: nothing, or
\* its first digit ("4" of "45.0" in a column of tenths, "4" of "40").
CutCell(i, cell) ==
    IF cell = <<>> THEN {<<>>}
    ELSE IF MonitorHeader[i] \in {"temperature", "humidity"}
         THEN {<<>>} \cup (IF cell[1] >= 100 /\ cell[1] < 1000
                           THEN {<<(cell[1] \div 100) * 10>>} ELSE {})
         ELSE {<<>>} \cup (IF cell[1] >= 10 /\ cell[1] < 100
                           THEN {<<cell[1] \div 10>>} ELSE {})

\* The beginnings of a row a reader can find at the end of the file while the
\* writer's data is only partly in place: the cells before column k and what
\* is left of the cell in column k.
PartialLines(row) ==
    UNION { { [kind |-> "partial",
                cells |-> [i \in 1..k |-> IF i < k THEN row.cells[i] ELSE c]] :
                 c \in CutCell(k, row.cells[k]) } :
            k \in CutColumns }

\* log_data while the row is only partly visible to a reader: there is no
\* lock on the file, and the bytes of the row reach it while it can be read.
LogDataPartial ==
    /\ reply = NotRun
    /\ mpc = "log" /\ config.logging.enabled
    /\ \E line \in PartialLines(LogRow(agg)) : file' = AppendLine(file, line)
    /\ mpc' = "writing"
    /\ UNCHANGED <<config, broken, sensors, running, idx, agg, readings, alerts,
                   wrote, appended, faults, created, now, demo, exitVars,
                   dashVars, pureVars>>

\* log_data once the whole row is in the file.
LogDataFinish ==
    /\ reply = NotRun
    /\ mpc = "writing"
    /\ file' = [file EXCEPT !.lines[Len(file.lines)] = LogRow(agg)]
    /\ wrote' = TRUE
    /\ appended' = appended + 1
    /\ mpc' = "alerts"
    /\ UNCHANGED <<config, broken, sensors, running, idx, agg, readings, alerts,
                   faults, created, now, demo, exitVars,
                   dashVars, pureVars>>

\* GET /api/current
ApiCurrent ==
    /\ reply = NotRun
    /\ reply' = api_current(file)
    /\ UNCHANGED <<monVars, fileVars, demo, pureVars>>

\* get_recent_data as GET /api/recent/<parameter> and GET /api/stats call it;
\* the cutoff is datetime.now() minus the hours asked for.
GetRecentData ==
    /\ reply = NotRun
    /\ \E cutoff_time \in {0, now} :
          reply' = [route |-> "recent", cutoff_time |-> cutoff_time,
                    points |-> get_recent_data(file, cutoff_time)]
    /\ UNCHANGED <<monVars, fileVars, demo, pureVars>>

\* The answer is sent.
Respond ==
    /\ reply # NotRun
    /\ reply' = NotRun
    /\ UNCHANGED <<monVars, fileVars, demo, pureVars>>

\* A handler touches the file in a single readlines() call and works on its
\* own copy afterwards, so each request is taken to be answered before the
\* monitor's next step.
NextServe ==
    \/ (reply = NotRun /\ NextMonitor)
    \/ LogDataPartial \/ LogDataFinish
    \/ ApiCurrent \/ GetRecentData \/ Respond

\* AirIQ.py and the dashboard, started in the same directory.
SpecServe == InitSystem /\ [][NextServe]_vars

\* The value a complete cell of the given column stands for in an answer.
CellValue(col, cell) ==
    IF cell = <<>> THEN [text |-> <<>>]
    ELSE IF col = "timestamp" THEN [time |-> cell[1]]
    ELSE [number |-> ColumnScale(col) * cell[1]]

\* C14: when the log holds the header and a complete last row, GET
\* /api/current does not fail and answers with the values of the last row,
\* empty cells included, and with the AQI of that row's pm2_5 cell.
C14_CurrentIsLastRow ==
    (/\ reply # NotRun /\ reply.route = "current"
     /\ file.exists /\ Len(file.lines) >= 2 /\ LastLine.kind = "row") =>
       /\ ~reply.failed
       /\ \A i \in 1..Len(MonitorHeader) :
             /\ MonitorHeader[i] \in DOMAIN reply.readings
             /\ reply.readings[MonitorHeader[i]]
                   = CellValue(MonitorHeader[i], LastLine.cells[i])
       /\ reply.aqi = get_air_quality_index(
                         IF LastLine.cells[3] = <<>> THEN <<>>
                         ELSE <<10 * LastLine.cells[3][1]>>)

\* The log without its last line.
CompleteLines == [file EXCEPT !.lines = SubSeq(file.lines, 1, Len(file.lines) - 1)]

\* C15: an answer given while the last line of the log is only partly written
\* is the answer the complete lines alone would give: get_current_readings
\* returns the last complete row and get_recent_data no point of the partial
\* line.
C15_PartialLineUnused ==
    (/\ reply # NotRun
     /\ file.exists /\ Len(file.lines) >= 1 /\ LastLine.kind = "partial") =>
       /\ reply.route = "current" =>
             reply.readings = get_current_readings(CompleteLines)
       /\ reply.route = "recent" =>
             reply.points = get_recent_data(CompleteLines, reply.cutoff_time)

\* Whether position q may directly follow position p in a cycle that runs
\* aggregate, persist, evaluate alerts, present, sleep: each position is named
\* after the step about to run ("loop" and "read" aggregate, "aqi" classifies
\* the aggregate before it is used).
Follows(p, q) ==
    CASE p = "loop"    -> q \in {"read", "aqi", "log"}
      [] p = "read"    -> q \in {"read", "log"}
      [] p = "aqi"     -> q = "log"
      [] p = "log"     -> q = "alerts"
      [] p = "alerts"  -> q = "display"
      [] p = "display" -> q = "sleep"
      [] p = "sleep"   -> q = "loop"
      [] OTHER         -> TRUE

\* C18: in both programs every cycle runs read_all_sensors, then log_data,
\* then check_alerts, then display_data, then the sleep, and only then the
\* next cycle; read_all_sensors reads one sensor per step, in registry order.
C18_CycleOrder ==
    [][/\ (mpc' # mpc /\ mpc' \in InLoop) => Follows(mpc, mpc')
       /\ (mpc = "read" /\ mpc' \in InLoop /\ <<idx, readings>>' # <<idx, readings>>) =>
             /\ idx' = idx + 1
             /\ DOMAIN readings' = DOMAIN readings \cup {Registry(sensors)[idx]}
       /\ (demo'.pc # demo.pc /\ demo'.pc \in InLoop \cup {"aqi"}) =>
             Follows(demo.pc, demo'.pc)]_vars

(***************************************************************************)
(* Sensor health (AirIQ.py, SensorBase.is_healthy and the read methods)    *)
(*                                                                         *)
(* One sensor object and the calls of its read().  last_update is <<>>     *)
(* (None) or <<t>>, t being the number of the read that set it.            *)
(***************************************************************************)

\* A variant of Remember in which a read that gives nothing clears the field.
Remember_Overwrite(last, result, new) ==
    IF result = None THEN None ELSE new

\* The assignments to self.last_reading and self.last_update: they sit on the
\* path of read() that returns the reading and on no other.
Remember(last, result, new) ==
    IF result = None THEN last ELSE new

\* SensorBase.is_healthy
is_healthy(sensor) == sensor.last_reading # None

\* The largest number of read() calls on the sensor.
MaxReads == 4

\* SensorBase.__init__ and the driver's constructor, whose device opened or
\* failed to.
InitHealth ==
    /\ probe \in [name : SensorNames, device : {"ok", "none"},
                  last_reading : {None}, last_update : {<<>>},
                  reads : {0}, succeeded : {FALSE}, returned : {NotRun}]
    /\ IdleDecoder /\ IdleAlerts /\ IdleAqi /\ IdleLoader /\ IdleSystem

\* One call of sensor.read().
SensorRead ==
    /\ probe # NotRun
    /\ probe.reads < MaxReads
    /\ \E ioError \in BOOLEAN, input \in DeviceInputs(probe.name) :
          LET result == DriverRead(probe.name, probe.device, ioError, input)
          IN  probe' = [probe EXCEPT
                          !.last_reading = Remember(@, result, result),
                          !.last_update = Remember(@, result, <<probe.reads + 1>>),
                          !.reads = @ + 1,
                          !.succeeded = @ \/ result # None,
                          !.returned = result]
    /\ UNCHANGED <<decVars, alertVars, aqiVars, cfgVars, sysVars>>

NextHealth == SensorRead

SpecHealth == InitHealth /\ [][NextHealth]_vars

\* C20: is_healthy() is true exactly when some earlier read() of the sensor
\* returned a reading; it is false before, stays true afterwards, and a read
\* that returns None changes neither last_reading nor last_update.
C20_HealthyIffReadSucceeded ==
    [][/\ is_healthy(probe) <=> probe.succeeded
       /\ is_healthy(probe') <=> probe'.succeeded
       /\ is_healthy(probe) => is_healthy(probe')
       /\ probe'.returned = None =>
             /\ probe'.last_reading = probe.last_reading
             /\ probe'.last_update = probe.last_update]_vars

\* The first read of a DHT22 succeeded and the two after it failed: the
\* sensor is healthy and still holds the reading and the time of the first.
C20_Witness ==
    /\ probe # NotRun /\ probe.name = "dht22"
    /\ probe.reads = 3 /\ probe.returned = None
    /\ is_healthy(probe) /\ probe.last_update = <<1>>
    /\ probe.last_reading.humidity = 450

====
